---- MODULE Spec2Model ----
(***************************************************************************)
(* Invoice (factura) lifecycle and reporting subsystem of autoflow-backend *)
(* modelled as a state machine: the facturas table, the per-user uploads   *)
(* directories, and the request handlers of the facturas controller, each  *)
(* cut at its await points and callbacks.                                  *)
(***************************************************************************)
EXTENDS Integers, Sequences, FiniteSets, TLC

(***************************************************************************)
(* Bounds of the model.                                                    *)
(***************************************************************************)
\* ids the serial primary key of facturas may hand out
MaxFacturas == 2
\* requests the server handles at the same time
MaxInFlight == 2

(***************************************************************************)
(* JavaScript / SQL values.  Strings are tuples of one-character strings,  *)
(* amounts are integer cents (numeric(_, 2)).                              *)
(***************************************************************************)
Undefined == [t |-> "undefined"]
Null == [t |-> "null"]
Num(n) == [t |-> "number", v |-> n]
Str(s) == [t |-> "string", v |-> s]
Bool(b) == [t |-> "boolean", v |-> b]
Fecha(y, m, d) == [t |-> "date", y |-> y, m |-> m, d |-> d]
NaN == [t |-> "nan"]

\* ToBoolean of a JavaScript value, as used by !x and x || y
Truthy(v) ==
  CASE v.t = "undefined" -> FALSE
    [] v.t = "null" -> FALSE
    [] v.t = "nan" -> FALSE
    [] v.t = "boolean" -> v.v
    [] v.t = "number" -> v.v # 0
    [] v.t = "string" -> v.v # <<>>
    [] OTHER -> TRUE

\* a || b
Or(a, b) == IF Truthy(a) THEN a ELSE b

\* x !== undefined ? x : y
DefinedOr(a, b) == IF a # Undefined THEN a ELSE b

(***************************************************************************)
(* Strings.                                                                *)
(***************************************************************************)
Digits == <<"0", "1", "2", "3", "4", "5", "6", "7", "8", "9">>
UpperCase == <<"A", "B", "C", "D", "E", "F", "G", "H", "I", "J", "K", "L", "M",
               "N", "O", "P", "Q", "R", "S", "T", "U", "V", "W", "X", "Y", "Z">>
LowerCase == <<"a", "b", "c", "d", "e", "f", "g", "h", "i", "j", "k", "l", "m",
               "n", "o", "p", "q", "r", "s", "t", "u", "v", "w", "x", "y", "z">>

IsDigit(c) == \E k \in 1..10 : Digits[k] = c
DigitValue(c) == (CHOOSE k \in 1..10 : Digits[k] = c) - 1
IsSpace(c) == c = " "

\* String.prototype.toLowerCase / SQL LOWER, one character
LowerChar(c) ==
  IF \E k \in 1..26 : UpperCase[k] = c
  THEN LowerCase[CHOOSE k \in 1..26 : UpperCase[k] = c]
  ELSE c

ToLower(cs) == [k \in 1..Len(cs) |-> LowerChar(cs[k])]

\* search.replace(/\s/g, "") / REPLACE(x, ' ', '')
RECURSIVE StripSpaces(_)
StripSpaces(cs) ==
  IF cs = <<>> THEN <<>>
  ELSE IF IsSpace(Head(cs)) THEN StripSpaces(Tail(cs))
  ELSE <<Head(cs)>> \o StripSpaces(Tail(cs))

RECURSIVE TrimStart(_)
TrimStart(cs) ==
  IF cs # <<>> /\ IsSpace(Head(cs)) THEN TrimStart(Tail(cs)) ELSE cs

RECURSIVE TrimEnd(_)
TrimEnd(cs) ==
  IF cs # <<>> /\ IsSpace(cs[Len(cs)]) THEN TrimEnd(SubSeq(cs, 1, Len(cs) - 1))
  ELSE cs

\* String.prototype.trim
Trim(cs) == TrimEnd(TrimStart(cs))

\* the leading run of decimal digits of cs
RECURSIVE DigitPrefix(_)
DigitPrefix(cs) ==
  IF cs # <<>> /\ IsDigit(Head(cs)) THEN <<Head(cs)>> \o DigitPrefix(Tail(cs))
  ELSE <<>>

RECURSIVE DigitsValue(_)
DigitsValue(ds) ==
  IF ds = <<>> THEN 0
  ELSE 10 * DigitsValue(SubSeq(ds, 1, Len(ds) - 1)) + DigitValue(ds[Len(ds)])

\* parseInt(v): leading whitespace skipped, an optional sign, then the leading
\* digits; NaN when there are none (and for undefined)
ParseInt(v) ==
  IF v.t # "string" THEN NaN
  ELSE LET cs == TrimStart(v.v)
           signed == cs # <<>> /\ Head(cs) \in {"-", "+"}
           ds == DigitPrefix(IF signed THEN Tail(cs) ELSE cs)
       IN IF ds = <<>> THEN NaN
          ELSE Num(IF signed /\ Head(cs) = "-" THEN -DigitsValue(ds)
                   ELSE DigitsValue(ds))

\* isNaN(v) of a number
IsNaN(v) == v.t = "nan"

\* the decimal digits of n, at least width of them
RECURSIVE Decimal(_, _)
Decimal(n, width) ==
  IF n < 10 /\ width <= 1 THEN <<Digits[n + 1]>>
  ELSE Decimal(n \div 10, width - 1) \o <<Digits[(n % 10) + 1]>>

\* TO_CHAR(fecha, 'DD/MM/YYYY')
ToCharDDMMYYYY(f) ==
  Decimal(f.d, 2) \o <<"/">> \o Decimal(f.m, 2) \o <<"/">> \o Decimal(f.y, 4)

\* TO_CHAR(fecha, 'MM') as a month number
Mes(f) == f.m

\* x LIKE '%inner%', inner without wildcards: inner occurs in x
Contains(x, inner) ==
  \E k \in 0..(Len(x) - Len(inner)) : SubSeq(x, k + 1, k + Len(inner)) = inner

(***************************************************************************)
(* State.                                                                  *)
(***************************************************************************)
VARIABLES
  facturas,   \* the facturas table: id -> row, or NoRow
  nextId,     \* the next value of the table's serial id
  files,      \* the uploads directory: the set of <<usuario_id, filename>>
  reqs        \* the requests in flight: slot -> request

vars == <<facturas, nextId, files, reqs>>

Ids == 1..MaxFacturas
Slots == 1..MaxInFlight
Usuarios == {1, 2}

NoRow == [t |-> "norow"]
NoResp == [status |-> 0, message |-> "", data |-> Null]

EmptyBody ==
  [cliente_id |-> Undefined, fecha_emision |-> Undefined, importe |-> Undefined,
   estado |-> Undefined, numero |-> Undefined, descripcion |-> Undefined]

EmptyQuery ==
  [page |-> Undefined, limit |-> Undefined, sortField |-> Undefined,
   sortOrder |-> Undefined, search |-> Undefined, year |-> Undefined]

\* a free slot
Idle ==
  [op |-> "idle", pc |-> "idle", usuario_id |-> 0, id |-> 0, body |-> EmptyBody,
   file |-> Undefined, query |-> EmptyQuery, row |-> NoRow, data |-> Null,
   unlink |-> "none", resp |-> NoResp, sends |-> 0, error |-> "none"]

Init ==
  /\ facturas = [i \in Ids |-> NoRow]
  /\ nextId = 1
  /\ files = {}
  /\ reqs = [s \in Slots |-> Idle]

(***************************************************************************)
(* Shared pieces of the handlers.                                          *)
(***************************************************************************)
Exists(i) == facturas[i] # NoRow

\* variant: SELECT * FROM facturas WHERE id = $1
SelectById(id, usuario_id) ==
  IF id \in Ids /\ Exists(id) THEN facturas[id] ELSE NoRow

\* SELECT * FROM facturas WHERE id = $1 AND usuario_id = $2
SelectByIdAndUsuario(id, usuario_id) ==
  IF id \in Ids /\ Exists(id) /\ facturas[id].usuario_id = usuario_id
  THEN facturas[id]
  ELSE NoRow

\* the UNIQUE constraint facturas_numero_key: another row already holds numero
\* (SQL NULLs never collide)
NumeroTaken(numero, except) ==
  /\ numero # Null
  /\ \E i \in Ids : i # except /\ Exists(i) /\ facturas[i].numero = numero

\* res.status(status).json({message, ...data}): the first call is what the
\* caller receives; a later call throws ERR_HTTP_HEADERS_SENT
Send(r, status, message, data) ==
  IF r.sends = 0
  THEN [r EXCEPT !.resp = [status |-> status, message |-> message, data |-> data],
                 !.sends = 1]
  ELSE [r EXCEPT !.sends = @ + 1]

\* no handler code of the request is left to run
Finished(r) == r.pc \in {"idle", "done"} /\ r.unlink = "none"

\* once nothing of the request is left to run, only what the caller got stays
Settle(r) ==
  IF Finished(r)
  THEN [Idle EXCEPT !.op = r.op, !.pc = "done", !.usuario_id = r.usuario_id,
                    !.id = r.id, !.resp = r.resp, !.sends = r.sends,
                    !.error = r.error]
  ELSE r

\* the handler's main flow has returned
Done(r) == Settle([r EXCEPT !.pc = "done"])

Quiescent == \A s \in Slots : Finished(reqs[s])

\* path.join(__dirname, "..", "uploads", String(usuario_id), archivo)
FilePath(usuario_id, archivo) == <<usuario_id, archivo.v>>

\* the upload middleware has written req.file under the user's directory
Upload(usuario_id, file) ==
  IF file = Undefined THEN files ELSE files \cup {FilePath(usuario_id, file)}

\* a request arrives in a free slot: verifyToken has let it through with
\* req.user set, and the route's upload middleware has stored req.file under
\* a name not in use; the handler is about to run
Receive(s, rq) ==
  /\ Finished(reqs[s])
  /\ rq.file # Undefined => FilePath(rq.usuario_id, rq.file) \notin files
  /\ reqs' = [reqs EXCEPT ![s] =
       [Idle EXCEPT !.op = rq.op, !.pc = "start", !.usuario_id = rq.usuario_id,
                    !.id = rq.id, !.body = rq.body, !.file = rq.file,
                    !.query = rq.query]]
  /\ files' = Upload(rq.usuario_id, rq.file)
  /\ UNCHANGED <<facturas, nextId>>

(***************************************************************************)
(* createFactura                                                           *)
(***************************************************************************)
MsgObligatorios == "Fecha de emision, importe, cliente y estado son obligatorios"
MsgDuplicada == "Ya existe una factura con ese numero."
MsgServidor == "Error en el servidor"
MsgNoEncontrada == "Factura no encontrada"
MsgArchivo == "Error al eliminar el archivo"
MsgArchivoSistema == "Error al eliminar el archivo del sistema"
MsgSinArchivo == "La factura no tiene archivo asociado"

\* the row the INSERT of createFactura writes
NewFactura(r) ==
  [usuario_id |-> r.usuario_id,
   cliente_id |-> r.body.cliente_id,
   fecha_emision |-> r.body.fecha_emision,
   importe |-> r.body.importe,
   estado |-> r.body.estado,
   numero |-> Or(r.body.numero, Null),
   descripcion |-> Or(r.body.descripcion, Null),
   archivo |-> Or(r.file, Null)]

\* the required-field check
CreateValid(b) ==
  ~ (\/ ~Truthy(b.fecha_emision)
     \/ ~Truthy(b.importe)
     \/ b.estado = Undefined
     \/ ~Truthy(b.cliente_id))

\* variant: a catch block without the branch for the unique violation
CreateFacturaCatchAll(r, code) ==
  Send([r EXCEPT !.error = code], 500, MsgServidor, Null)

\* how the catch block of createFactura answers an error of the INSERT
CreateFacturaCatch(r, code) ==
  IF code = "23505"
  THEN Send([r EXCEPT !.error = code], 400, MsgDuplicada, Null)
  ELSE Send([r EXCEPT !.error = code], 500, MsgServidor, Null)

\* the whole handler: the required-field check, then the INSERT (its only
\* await), which runs or fails, and the answer
CreateFactura(s, DbFails) ==
  LET r == reqs[s]
      row == NewFactura(r)
  IN
  /\ r.op = "createFactura" /\ r.pc = "start"
  /\ \E fail \in DbFails :
       IF ~CreateValid(r.body)
       THEN /\ reqs' = [reqs EXCEPT ![s] = Done(Send(r, 400, MsgObligatorios, Null))]
            /\ UNCHANGED <<facturas, nextId>>
       ELSE IF fail
       THEN /\ reqs' = [reqs EXCEPT ![s] = Done(CreateFacturaCatch(r, "db"))]
            /\ UNCHANGED <<facturas, nextId>>
       ELSE IF NumeroTaken(row.numero, 0)
       THEN /\ reqs' = [reqs EXCEPT ![s] = Done(CreateFacturaCatch(r, "23505"))]
            /\ UNCHANGED <<facturas, nextId>>
       ELSE /\ nextId <= MaxFacturas
            /\ facturas' = [facturas EXCEPT ![nextId] = row]
            /\ nextId' = nextId + 1
            /\ reqs' = [reqs EXCEPT ![s] =
                 Done(Send([r EXCEPT !.id = nextId], 201,
                           "Factura creada con exito", row))]
  /\ UNCHANGED files

(***************************************************************************)
(* getFacturaById                                                          *)
(***************************************************************************)
\* the whole handler: the owner-scoped SELECT runs and the handler answers
GetFacturaById(s, DbFails) ==
  LET r == reqs[s]
      row == SelectByIdAndUsuario(r.id, r.usuario_id)
  IN
  /\ r.op = "getFacturaById" /\ r.pc = "start"
  /\ \E fail \in DbFails :
       reqs' = [reqs EXCEPT ![s] =
         IF fail THEN Done(Send([r EXCEPT !.error = "db"], 500, MsgServidor, Null))
         ELSE IF row = NoRow THEN Done(Send(r, 404, MsgNoEncontrada, Null))
         ELSE Done(Send(r, 200, "", row))]
  /\ UNCHANGED <<facturas, nextId, files>>

(***************************************************************************)
(* fs.unlink: the file is removed, or the callback gets an error (the file *)
(* is not there, or the removal fails)                                     *)
(***************************************************************************)
UnlinkOutcomes(path, IoFails) ==
  IF path \in files THEN {"removed"} \cup {"error" : f \in IoFails \ {FALSE}}
  ELSE {"error"}

(***************************************************************************)
(* updateFactura                                                           *)
(***************************************************************************)
\* archivoActual: the replacement file's name, else the fetched row's
ArchivoActual(r) == IF r.file # Undefined THEN r.file ELSE r.row.archivo

\* variant: every field of the UPDATE chosen with ||
UpdatedFacturaAllOr(r) ==
  [usuario_id |-> r.row.usuario_id,
   cliente_id |-> Or(r.body.cliente_id, r.row.cliente_id),
   fecha_emision |-> Or(r.body.fecha_emision, r.row.fecha_emision),
   importe |-> Or(r.body.importe, r.row.importe),
   estado |-> Or(r.body.estado, r.row.estado),
   numero |-> Or(r.body.numero, r.row.numero),
   descripcion |-> Or(r.body.descripcion, r.row.descripcion),
   archivo |-> Or(ArchivoActual(r), Null)]

\* the parameters of the UPDATE: the per-field choice between the body's value
\* and the fetched row's
UpdatedFactura(r) ==
  [usuario_id |-> r.row.usuario_id,
   cliente_id |-> Or(r.body.cliente_id, r.row.cliente_id),
   fecha_emision |-> Or(r.body.fecha_emision, r.row.fecha_emision),
   importe |-> Or(r.body.importe, r.row.importe),
   estado |-> DefinedOr(r.body.estado, r.row.estado),
   numero |-> DefinedOr(r.body.numero, r.row.numero),
   descripcion |-> DefinedOr(r.body.descripcion, r.row.descripcion),
   archivo |-> Or(ArchivoActual(r), Null)]

\* the handler after its owner-scoped SELECT: 404, or the fetched row kept,
\* the old file's unlink started when a replacement file came, the UPDATE sent
UpdateFacturaSelected(r, row) ==
  IF row = NoRow THEN Done(Send(r, 404, MsgNoEncontrada, Null))
  ELSE [r EXCEPT !.row = row, !.pc = "update",
                 !.unlink = IF r.file # Undefined /\ Truthy(row.archivo)
                            THEN "pending" ELSE "none"]

\* the handler up to its second await
UpdateFacturaSelect(s, DbFails) ==
  LET r == reqs[s]
      row == SelectByIdAndUsuario(r.id, r.usuario_id)
  IN
  /\ r.op = "updateFactura" /\ r.pc = "start"
  /\ \E fail \in DbFails :
       reqs' = [reqs EXCEPT ![s] =
         IF fail THEN Done(Send([r EXCEPT !.error = "db"], 500, MsgServidor, Null))
         ELSE UpdateFacturaSelected(r, row)]
  /\ UNCHANGED <<facturas, nextId, files>>

\* how the catch block of updateFactura answers an error of the UPDATE
UpdateFacturaCatch(r, code) ==
  Send([r EXCEPT !.error = code], 500, MsgServidor, Null)

\* the UPDATE runs (or fails) and the handler answers
UpdateFacturaUpdate(s, DbFails) ==
  LET r == reqs[s]
      new == UpdatedFactura(r)
      hit == SelectByIdAndUsuario(r.id, r.usuario_id) # NoRow
  IN
  /\ r.op = "updateFactura" /\ r.pc = "update"
  /\ \E fail \in DbFails :
       IF fail
       THEN /\ reqs' = [reqs EXCEPT ![s] = Done(UpdateFacturaCatch(r, "db"))]
            /\ UNCHANGED facturas
       ELSE IF hit /\ NumeroTaken(new.numero, r.id)
       THEN /\ reqs' = [reqs EXCEPT ![s] = Done(UpdateFacturaCatch(r, "23505"))]
            /\ UNCHANGED facturas
       ELSE /\ facturas' = IF hit THEN [facturas EXCEPT ![r.id] = new] ELSE facturas
            /\ reqs' = [reqs EXCEPT ![s] =
                 Done(Send(r, 200, "Factura actualizada con exito",
                           IF hit THEN new ELSE Undefined))]
  /\ UNCHANGED <<nextId, files>>

\* the unlink of the old file completes; its error is only logged
UpdateFacturaUnlink(s, IoFails) ==
  LET r == reqs[s]
      path == FilePath(r.usuario_id, r.row.archivo)
  IN
  /\ r.op = "updateFactura" /\ r.unlink = "pending"
  /\ \E out \in UnlinkOutcomes(path, IoFails) :
       /\ files' = IF out = "removed" THEN files \ {path} ELSE files
       /\ reqs' = [reqs EXCEPT ![s] = Settle([r EXCEPT !.unlink = "none"])]
  /\ UNCHANGED <<facturas, nextId>>

(***************************************************************************)
(* deleteFactura                                                           *)
(***************************************************************************)
\* the handler after its owner-scoped SELECT: 404, or the attachment's unlink
\* started and the DELETE sent
DeleteFacturaSelected(r, row) ==
  IF row = NoRow THEN Done(Send(r, 404, MsgNoEncontrada, Null))
  ELSE [r EXCEPT !.row = row, !.pc = "delete",
                 !.unlink = IF Truthy(row.archivo) THEN "pending" ELSE "none"]

\* the handler up to its second await
DeleteFacturaSelect(s, DbFails) ==
  LET r == reqs[s]
      row == SelectByIdAndUsuario(r.id, r.usuario_id)
  IN
  /\ r.op = "deleteFactura" /\ r.pc = "start"
  /\ \E fail \in DbFails :
       reqs' = [reqs EXCEPT ![s] =
         IF fail THEN Done(Send([r EXCEPT !.error = "db"], 500, MsgServidor, Null))
         ELSE DeleteFacturaSelected(r, row)]
  /\ UNCHANGED <<facturas, nextId, files>>

\* what the main flow sends after the DELETE: the success answer, and, when
\* that throws because the unlink callback has answered already, the catch
\* block's answer
DeleteFacturaAnswer(r) ==
  LET first == Send(r, 200, "Factura eliminada con exito", Null) IN
  IF r.sends = 0 THEN first ELSE Send(first, 500, MsgServidor, Null)

\* the DELETE runs (or fails) and the main flow answers
DeleteFacturaDelete(s, DbFails) ==
  LET r == reqs[s]
      hit == SelectByIdAndUsuario(r.id, r.usuario_id) # NoRow
  IN
  /\ r.op = "deleteFactura" /\ r.pc = "delete"
  /\ \E fail \in DbFails :
       IF fail
       THEN /\ reqs' = [reqs EXCEPT ![s] =
                 Done(Send([r EXCEPT !.error = "db"], 500, MsgServidor, Null))]
            /\ UNCHANGED facturas
       ELSE /\ facturas' = IF hit THEN [facturas EXCEPT ![r.id] = NoRow] ELSE facturas
            /\ reqs' = [reqs EXCEPT ![s] = Done(DeleteFacturaAnswer(r))]
  /\ UNCHANGED <<nextId, files>>

\* what the unlink callback of deleteFactura does with its outcome
DeleteFacturaUnlinked(r, out) ==
  IF out = "error"
  THEN Send([r EXCEPT !.unlink = "none", !.error = "unlink"], 500,
            MsgArchivo, Null)
  ELSE [r EXCEPT !.unlink = "none"]

\* the unlink of the attachment completes and its callback runs
DeleteFacturaUnlink(s, IoFails) ==
  LET r == reqs[s]
      path == FilePath(r.usuario_id, r.row.archivo)
  IN
  /\ r.op = "deleteFactura" /\ r.unlink = "pending"
  /\ \E out \in UnlinkOutcomes(path, IoFails) :
       /\ files' = IF out = "removed" THEN files \ {path} ELSE files
       /\ reqs' = [reqs EXCEPT ![s] = Settle(DeleteFacturaUnlinked(r, out))]
  /\ UNCHANGED <<facturas, nextId>>

(***************************************************************************)
(* deleteArchivoFactura                                                    *)
(***************************************************************************)
\* the handler after its owner-scoped SELECT: 404, 400 without an attachment,
\* or the attachment's unlink started and the main flow over with no answer
DeleteArchivoFacturaSelected(r, row) ==
  IF row = NoRow THEN Done(Send(r, 404, MsgNoEncontrada, Null))
  ELSE IF ~Truthy(row.archivo)
  THEN Done(Send(r, 400, MsgSinArchivo, Null))
  ELSE Done([r EXCEPT !.row = row, !.unlink = "pending"])

\* the main flow of the handler
DeleteArchivoFacturaSelect(s, DbFails) ==
  LET r == reqs[s]
      row == SelectByIdAndUsuario(r.id, r.usuario_id)
  IN
  /\ r.op = "deleteArchivoFactura" /\ r.pc = "start"
  /\ \E fail \in DbFails :
       reqs' = [reqs EXCEPT ![s] =
         IF fail THEN Done(Send([r EXCEPT !.error = "db"], 500, MsgServidor, Null))
         ELSE DeleteArchivoFacturaSelected(r, row)]
  /\ UNCHANGED <<facturas, nextId, files>>

\* variant: a callback that only logs the error and clears archivo all the same
DeleteArchivoFacturaUnlinkedLogOnly(r, out) ==
  [r EXCEPT !.unlink = "update",
            !.error = IF out = "error" THEN "unlink" ELSE @]

\* what the unlink callback of deleteArchivoFactura does with its outcome:
\* answer 500, or send the UPDATE that clears archivo
DeleteArchivoFacturaUnlinked(r, out) ==
  IF out = "error"
  THEN Send([r EXCEPT !.unlink = "none", !.error = "unlink"], 500,
            MsgArchivoSistema, Null)
  ELSE [r EXCEPT !.unlink = "update"]

\* the unlink of the attachment completes and its callback runs
DeleteArchivoFacturaUnlink(s, IoFails) ==
  LET r == reqs[s]
      path == FilePath(r.usuario_id, r.row.archivo)
  IN
  /\ r.op = "deleteArchivoFactura" /\ r.unlink = "pending"
  /\ \E out \in UnlinkOutcomes(path, IoFails) :
       /\ files' = IF out = "removed" THEN files \ {path} ELSE files
       /\ reqs' = [reqs EXCEPT ![s] = Settle(DeleteArchivoFacturaUnlinked(r, out))]
  /\ UNCHANGED <<facturas, nextId>>

\* the callback's UPDATE runs and the callback answers; a failed UPDATE
\* rejects the callback's promise, which nothing handles
DeleteArchivoFacturaUpdate(s, DbFails) ==
  LET r == reqs[s]
      hit == SelectByIdAndUsuario(r.id, r.usuario_id) # NoRow
  IN
  /\ r.op = "deleteArchivoFactura" /\ r.unlink = "update"
  /\ \E fail \in DbFails :
       IF fail
       THEN /\ reqs' = [reqs EXCEPT ![s] =
                 Settle([r EXCEPT !.unlink = "none", !.error = "unhandled"])]
            /\ UNCHANGED facturas
       ELSE /\ facturas' = IF hit THEN [facturas EXCEPT ![r.id].archivo = Null]
                           ELSE facturas
            /\ reqs' = [reqs EXCEPT ![s] =
                 Settle(Send([r EXCEPT !.unlink = "none"], 200,
                             "Archivo eliminado correctamente", Null))]
  /\ UNCHANGED <<nextId, files>>

(***************************************************************************)
(* getFacturasByUser                                                       *)
(***************************************************************************)
DefaultLimit == 5
FechaEmisionColumn ==
  Str(<<"f", "e", "c", "h", "a", "_", "e", "m", "i", "s", "i", "o", "n">>)
ImporteColumn == Str(<<"i", "m", "p", "o", "r", "t", "e">>)
One == Str(<<"1">>)

\* req.query.search?.toLowerCase().trim() || ""
Search(q) == IF q.search.t = "string" THEN Trim(ToLower(q.search.v)) ELSE <<>>

\* searchPattern without its two % signs
SearchPattern(q) == StripSpaces(Search(q))

\* REPLACE(LOWER(column), ' ', '') LIKE $2; a NULL column matches nothing
ColumnLike(v, pattern) ==
  v.t = "string" /\ Contains(StripSpaces(ToLower(v.v)), pattern)

\* variant: the search alternatives outside the parentheses, so that AND binds
\* the owner to the first of them only
WhereClauseUnparenthesised(row, usuarioId, q) ==
  IF Search(q) = <<>> THEN row.usuario_id = usuarioId
  ELSE \/ row.usuario_id = usuarioId /\ ColumnLike(row.numero, SearchPattern(q))
       \/ ColumnLike(row.descripcion, SearchPattern(q))
       \/ Contains(ToCharDDMMYYYY(row.fecha_emision), SearchPattern(q))

\* the WHERE clause of the paginated query
WhereClause(row, usuarioId, q) ==
  /\ row.usuario_id = usuarioId
  /\ Search(q) # <<>> =>
       \/ ColumnLike(row.numero, SearchPattern(q))
       \/ ColumnLike(row.descripcion, SearchPattern(q))
       \/ Contains(ToCharDDMMYYYY(row.fecha_emision), SearchPattern(q))

Matching(usuarioId, q) ==
  {i \in Ids : Exists(i) /\ WhereClause(facturas[i], usuarioId, q)}

SortField(q) == Or(q.sortField, FechaEmisionColumn)
SortAscending(q) == q.sortOrder = One
Page(q) == Or(ParseInt(q.page), Num(1)).v
Limit(q) == Or(ParseInt(q.limit), Num(DefaultLimit)).v
Offset(q) == (Page(q) - 1) * Limit(q)

\* the value the ORDER BY compares
SortKey(row, field) ==
  IF field = ImporteColumn THEN row.importe.v
  ELSE row.fecha_emision.y * 10000 + row.fecha_emision.m * 100 + row.fecha_emision.d

\* the orders ORDER BY may return the matching rows in (ties in any order)
Orderings(S, q) ==
  {o \in [1..Cardinality(S) -> S] :
     /\ \A j, k \in 1..Cardinality(S) : j # k => o[j] # o[k]
     /\ \A j, k \in 1..Cardinality(S) : j < k =>
          IF SortAscending(q)
          THEN SortKey(facturas[o[j]], SortField(q)) <= SortKey(facturas[o[k]], SortField(q))
          ELSE SortKey(facturas[o[j]], SortField(q)) >= SortKey(facturas[o[k]], SortField(q))}

\* LIMIT $n OFFSET $m of an ordered result
LimitOffset(o, limit, offset) ==
  SubSeq(o, offset + 1, IF offset + limit < Len(o) THEN offset + limit ELSE Len(o))

\* the paginated query is rejected: an unknown sort column, a negative OFFSET
\* or LIMIT
QueryRejected(q) ==
  \/ SortField(q) \notin {FechaEmisionColumn, ImporteColumn}
  \/ Offset(q) < 0
  \/ Limit(q) < 0

\* the rows of the answer: each with its id and its archivo_url
FacturasConUrl(ids) ==
  [k \in 1..Len(ids) |->
     [id |-> ids[k], factura |-> facturas[ids[k]],
      archivo_url |-> IF Truthy(facturas[ids[k]].archivo)
                      THEN [base |-> "UPLOADS_BASE_URL",
                            usuario_id |-> facturas[ids[k]].usuario_id,
                            archivo |-> facturas[ids[k]].archivo.v]
                      ELSE Null]]

MsgFacturas == "Error al obtener las facturas."

\* the handler up to its second await: the paginated query runs (or fails)
GetFacturasByUserQuery(s, DbFails) ==
  LET r == reqs[s] IN
  /\ r.op = "getFacturasByUser" /\ r.pc = "start"
  /\ \E fail \in DbFails :
       IF fail \/ QueryRejected(r.query)
       THEN reqs' = [reqs EXCEPT ![s] =
              Done(Send([r EXCEPT !.error = "db"], 500, MsgFacturas, Null))]
       ELSE \E o \in Orderings(Matching(r.usuario_id, r.query), r.query) :
              reqs' = [reqs EXCEPT ![s] =
                [r EXCEPT !.pc = "count",
                          !.data = FacturasConUrl(
                             LimitOffset(o, Limit(r.query), Offset(r.query)))]]
  /\ UNCHANGED <<facturas, nextId, files>>

\* SELECT COUNT(*) FROM facturas WHERE usuario_id = $1
TotalCount(usuarioId) ==
  Cardinality({i \in Ids : Exists(i) /\ facturas[i].usuario_id = usuarioId})

\* the count query runs (or fails) and the handler answers
GetFacturasByUserCount(s, DbFails) ==
  LET r == reqs[s] IN
  /\ r.op = "getFacturasByUser" /\ r.pc = "count"
  /\ \E fail \in DbFails :
       reqs' = [reqs EXCEPT ![s] =
         IF fail
         THEN Done(Send([r EXCEPT !.error = "db", !.data = Null], 500, MsgFacturas, Null))
         ELSE Done(Send([r EXCEPT !.data = Null], 200, "",
                        [facturas |-> r.data, total |-> TotalCount(r.usuario_id)]))]
  /\ UNCHANGED <<facturas, nextId, files>>

(***************************************************************************)
(* getResumenFacturasPorYear                                               *)
(***************************************************************************)
MsgYear == "Ano invalido"

\* the year check: !year || isNaN(year) answers 400
YearValid(year) == ~ (~Truthy(year) \/ IsNaN(year))

\* WHERE usuario_id = $1 AND EXTRACT(YEAR FROM fecha_emision) = $2
DelYear(usuario_id, year) ==
  {i \in Ids : /\ Exists(i)
               /\ facturas[i].usuario_id = usuario_id
               /\ facturas[i].fecha_emision.y = year}

\* FILTER (WHERE estado = b); a NULL estado passes neither filter
ConEstado(S, b) == {i \in S : facturas[i].estado = Bool(b)}

\* SUM(importe) in cents
RECURSIVE Sum(_)
Sum(S) ==
  IF S = {} THEN 0
  ELSE LET i == CHOOSE j \in S : TRUE IN facturas[i].importe.v + Sum(S \ {i})

\* COALESCE(SUM(importe), 0)
SumOrZero(S) == Num(Sum(S))

\* variant: TRUNC(total / n, 2)
TruncDiv(total, n) ==
  IF total >= 0 THEN total \div n ELSE -((-total) \div n)

\* ROUND(total / n, 2) of numeric, in cents: half away from zero
RoundDiv(total, n) ==
  IF total >= 0 THEN (2 * total + n) \div (2 * n)
  ELSE -((2 * (-total) + n) \div (2 * n))

\* ROUND(AVG(importe)::numeric, 2); NULL over no rows
Avg(S) == IF S = {} THEN Null ELSE Num(RoundDiv(Sum(S), Cardinality(S)))

\* the first query's single row
ResumenQuery(usuario_id, year) ==
  LET S == DelYear(usuario_id, year) IN
  [total_facturas |-> Num(Cardinality(S)),
   pagadas |-> Num(Cardinality(ConEstado(S, TRUE))),
   no_pagadas |-> Num(Cardinality(ConEstado(S, FALSE))),
   total_importe |-> SumOrZero(S),
   importe_pagadas |-> SumOrZero(ConEstado(S, TRUE)),
   importe_no_pagadas |-> SumOrZero(ConEstado(S, FALSE)),
   promedio_importe |-> Avg(S),
   promedio_pagadas |-> Avg(ConEstado(S, TRUE)),
   promedio_no_pagadas |-> Avg(ConEstado(S, FALSE))]

\* parseInt / parseFloat of a column of the result (pg hands numbers over as
\* decimal strings, which the bounded amounts of the model survive exactly)
ParseColumn(v) == IF v.t = "number" THEN v.v ELSE 0

\* the resumen object of the answer
Resumen(row) ==
  [totalFacturas |-> ParseColumn(row.total_facturas),
   pagadas |-> ParseColumn(row.pagadas),
   noPagadas |-> ParseColumn(row.no_pagadas),
   totalImporte |-> ParseColumn(row.total_importe),
   importePagadas |-> ParseColumn(row.importe_pagadas),
   importeNoPagadas |-> ParseColumn(row.importe_no_pagadas),
   promedioImporte |-> ParseColumn(Or(row.promedio_importe, Num(0))),
   promedioPagadas |-> ParseColumn(Or(row.promedio_pagadas, Num(0))),
   promedioNoPagadas |-> ParseColumn(Or(row.promedio_no_pagadas, Num(0)))]

\* the second query's rows, one per month that has invoices, and
\* agrupadoMensual: all twelve months, zero where no row is found
AgrupadoMensual(usuario_id, year) ==
  [mes \in 1..12 |->
     LET S == {i \in DelYear(usuario_id, year) : Mes(facturas[i].fecha_emision) = mes}
         found == S # {}
     IN [mes |-> mes,
         total |-> IF found THEN Cardinality(S) ELSE 0,
         pagadas |-> IF found THEN Cardinality(ConEstado(S, TRUE)) ELSE 0,
         noPagadas |-> IF found THEN Cardinality(ConEstado(S, FALSE)) ELSE 0,
         totalImporte |-> IF found THEN Sum(S) ELSE 0]]

\* the handler up to its second await: the year check, then the summary query
\* runs (or fails)
GetResumenFacturasPorYearResumen(s, DbFails) ==
  LET r == reqs[s]
      year == ParseInt(r.query.year)
  IN
  /\ r.op = "getResumenFacturasPorYear" /\ r.pc = "start"
  /\ \E fail \in DbFails :
       reqs' = [reqs EXCEPT ![s] =
         IF ~YearValid(year) THEN Done(Send(r, 400, MsgYear, Null))
         ELSE IF fail
         THEN Done(Send([r EXCEPT !.error = "db"], 500, MsgServidor, Null))
         ELSE [r EXCEPT !.pc = "mensual",
                        !.data = [year |-> year.v,
                                  resumen |-> Resumen(ResumenQuery(r.usuario_id, year.v))]]]
  /\ UNCHANGED <<facturas, nextId, files>>

\* the monthly query runs (or fails) and the handler answers
GetResumenFacturasPorYearMensual(s, DbFails) ==
  LET r == reqs[s] IN
  /\ r.op = "getResumenFacturasPorYear" /\ r.pc = "mensual"
  /\ \E fail \in DbFails :
       reqs' = [reqs EXCEPT ![s] =
         IF fail
         THEN Done(Send([r EXCEPT !.error = "db", !.data = Null], 500, MsgServidor, Null))
         ELSE Done(Send([r EXCEPT !.data = Null], 200, "",
                        [year |-> r.data.year, resumen |-> r.data.resumen,
                         mensual |-> AgrupadoMensual(r.usuario_id, r.data.year)]))]
  /\ UNCHANGED <<facturas, nextId, files>>

(***************************************************************************)
(* Requests.                                                               *)
(***************************************************************************)
Request(op, usuario_id, id, body, file, query) ==
  [op |-> op, usuario_id |-> usuario_id, id |-> id, body |-> body,
   file |-> file, query |-> query]

INV1 == Str(<<"I", "N", "V", "-", "1">>)
F1 == Str(<<"f", "1">>)
F2 == Str(<<"f", "2">>)

\* the scenario's invoice: client 5, issued 2024-03-01, 100.00, unpaid
BaseBody ==
  [cliente_id |-> Num(5), fecha_emision |-> Fecha(2024, 3, 1),
   importe |-> Num(10000), estado |-> Bool(FALSE),
   numero |-> Undefined, descripcion |-> Undefined]

\* one user's requests on attachments: creates may upload f1, updates f2
AttachmentRequests ==
  {Request("createFactura", 1, 0, BaseBody, f, EmptyQuery) : f \in {Undefined, F1}}
  \cup
  {Request("updateFactura", 1, i, EmptyBody, f, EmptyQuery) :
     i \in Ids, f \in {Undefined, F2}}
  \cup
  {Request(op, 1, i, EmptyBody, Undefined, EmptyQuery) :
     op \in {"deleteFactura", "deleteArchivoFactura"}, i \in Ids}

\* concurrent requests of one user; any database statement and any unlink
\* may fail
Next ==
  \E s \in Slots :
    \/ \E rq \in AttachmentRequests : Receive(s, rq)
    \/ CreateFactura(s, BOOLEAN)
    \/ UpdateFacturaSelect(s, BOOLEAN)
    \/ UpdateFacturaUpdate(s, BOOLEAN)
    \/ UpdateFacturaUnlink(s, BOOLEAN)
    \/ DeleteFacturaSelect(s, BOOLEAN)
    \/ DeleteFacturaDelete(s, BOOLEAN)
    \/ DeleteFacturaUnlink(s, BOOLEAN)
    \/ DeleteArchivoFacturaSelect(s, BOOLEAN)
    \/ DeleteArchivoFacturaUnlink(s, BOOLEAN)
    \/ DeleteArchivoFacturaUpdate(s, BOOLEAN)

Spec == Init /\ [][Next]_vars

(***************************************************************************)
(* Two users, one request at a time: ownership.                            *)
(***************************************************************************)
OwnerRequests ==
  {Request("createFactura", u, 0, BaseBody, f, EmptyQuery) :
     u \in Usuarios, f \in {Undefined, F1}}
  \cup
  {Request("updateFactura", u, i, EmptyBody, f, EmptyQuery) :
     u \in Usuarios, i \in Ids, f \in {Undefined, F2}}
  \cup
  {Request(op, u, i, EmptyBody, Undefined, EmptyQuery) :
     op \in {"getFacturaById", "deleteFactura", "deleteArchivoFactura"},
     u \in Usuarios, i \in Ids}

NextOwner ==
  \/ \E rq \in OwnerRequests : Receive(1, rq)
  \/ CreateFactura(1, BOOLEAN)
  \/ GetFacturaById(1, BOOLEAN)
  \/ UpdateFacturaSelect(1, BOOLEAN)
  \/ UpdateFacturaUpdate(1, BOOLEAN)
  \/ UpdateFacturaUnlink(1, BOOLEAN)
  \/ DeleteFacturaSelect(1, BOOLEAN)
  \/ DeleteFacturaDelete(1, BOOLEAN)
  \/ DeleteFacturaUnlink(1, BOOLEAN)
  \/ DeleteArchivoFacturaSelect(1, BOOLEAN)
  \/ DeleteArchivoFacturaUnlink(1, BOOLEAN)
  \/ DeleteArchivoFacturaUpdate(1, BOOLEAN)

SpecOwner == Init /\ [][NextOwner]_vars

(***************************************************************************)
(* Creates and updates over the fields of the body, one request at a time. *)
(***************************************************************************)
Empty == Str(<<>>)
DescX == Str(<<"x">>)

\* creates: the scenario's invoice, with a number, and with a required field
\* missing or falsy
CreateBodies ==
  {BaseBody,
   [BaseBody EXCEPT !.numero = INV1],
   [BaseBody EXCEPT !.numero = Empty, !.descripcion = Empty],
   [BaseBody EXCEPT !.estado = Undefined],
   [BaseBody EXCEPT !.importe = Num(0)],
   [BaseBody EXCEPT !.fecha_emision = Undefined, !.numero = INV1],
   [BaseBody EXCEPT !.cliente_id = Undefined]}

\* updates: each field alone with a truthy, a falsy and a null value, and the
\* scenario's update
UpdateBodies ==
  {[EmptyBody EXCEPT !.cliente_id = v] : v \in {Num(7), Num(0), Null}}
  \cup {[EmptyBody EXCEPT !.fecha_emision = v] : v \in {Fecha(2023, 12, 31), Empty, Null}}
  \cup {[EmptyBody EXCEPT !.importe = v] : v \in {Num(1), Num(0), Null}}
  \cup {[EmptyBody EXCEPT !.estado = v] : v \in {Bool(TRUE), Bool(FALSE), Null}}
  \cup {[EmptyBody EXCEPT !.numero = v] : v \in {INV1, Empty, Null}}
  \cup {[EmptyBody EXCEPT !.descripcion = v] : v \in {DescX, Empty, Null}}
  \cup {[EmptyBody EXCEPT !.estado = Bool(TRUE), !.numero = INV1], EmptyBody}

\* every update goes to invoice 1; invoice 2 is there to hold a number
CrudRequests ==
  {Request("createFactura", u, 0, b, Undefined, EmptyQuery) :
     u \in Usuarios, b \in CreateBodies}
  \cup
  {Request("updateFactura", u, 1, b, Undefined, EmptyQuery) :
     u \in Usuarios, b \in UpdateBodies}

NextCrud ==
  \/ \E rq \in CrudRequests : Receive(1, rq)
  \/ CreateFactura(1, BOOLEAN)
  \/ UpdateFacturaSelect(1, BOOLEAN)
  \/ UpdateFacturaUpdate(1, BOOLEAN)

SpecCrud == Init /\ [][NextCrud]_vars

(***************************************************************************)
(* Lists and yearly summaries over what two users create, one request at   *)
(* a time.                                                                 *)
(***************************************************************************)
\* invoices of two years and two months, paid, unpaid and with a null
\* estado, of 100.00 and 0.01
ReportBodies ==
  {[BaseBody EXCEPT !.numero = INV1],
   [BaseBody EXCEPT !.estado = Bool(TRUE), !.importe = Num(1)],
   [BaseBody EXCEPT !.estado = Bool(TRUE), !.fecha_emision = Fecha(2024, 11, 20),
                    !.descripcion = Str(<<"P", "a", "g", "o", " ", "1">>)],
   [BaseBody EXCEPT !.estado = Bool(TRUE), !.fecha_emision = Fecha(2023, 12, 31)],
   [BaseBody EXCEPT !.estado = Null, !.importe = Num(1)]}

Y2024 == Str(<<"2", "0", "2", "4">>)
Y2023abc == Str(<<"2", "0", "2", "3", "a", "b", "c">>)

\* ?year= as sent: missing, empty, not a number, zero, negative, a year, a
\* year followed by letters
YearParams ==
  {Undefined, Empty, Str(<<"a", "b", "c">>), Str(<<"0">>), Str(<<"-", "5">>),
   Y2024, Y2023abc}

\* ?page=&limit=&sortField=&sortOrder=&search= as sent
ListQueries ==
  {[EmptyQuery EXCEPT !.page = p, !.limit = l, !.sortField = f, !.sortOrder = o,
                      !.search = q] :
     p \in {Undefined, Str(<<"2">>), Str(<<"-", "1">>)},
     l \in {Undefined, One},
     f \in {Undefined, ImporteColumn, DescX},
     o \in {Undefined, One},
     q \in {Undefined, Str(<<" ", "i", "n", "V", " ", "-", "1", " ">>),
            Str(<<"0", "3", "/", "2", "0", "2", "4">>), Str(<<"p", "a", "g", "o">>)}}

ReportRequests ==
  {Request("createFactura", u, 0, b, Undefined, EmptyQuery) :
     u \in Usuarios, b \in ReportBodies}
  \cup
  {Request("getFacturasByUser", u, 0, EmptyBody, Undefined, q) :
     u \in Usuarios, q \in ListQueries}
  \cup
  {Request("getResumenFacturasPorYear", u, 0, EmptyBody, Undefined,
           [EmptyQuery EXCEPT !.year = y]) :
     u \in Usuarios, y \in YearParams}

NextReport ==
  \/ \E rq \in ReportRequests : Receive(1, rq)
  \/ CreateFactura(1, BOOLEAN)
  \/ GetFacturasByUserQuery(1, BOOLEAN)
  \/ GetFacturasByUserCount(1, BOOLEAN)
  \/ GetResumenFacturasPorYearResumen(1, BOOLEAN)
  \/ GetResumenFacturasPorYearMensual(1, BOOLEAN)

SpecReport == Init /\ [][NextReport]_vars

(***************************************************************************)
(* Properties.                                                             *)
(***************************************************************************)
\* slot s takes a step of the handler it is running: every step of a handler
\* moves its main flow or its unlink callback on
Steps(s) ==
  /\ reqs[s].pc # "idle"
  /\ ~Finished(reqs[s])
  /\ <<reqs'[s].pc, reqs'[s].unlink>> # <<reqs[s].pc, reqs[s].unlink>>

NotFound == [status |-> 404, message |-> MsgNoEncontrada, data |-> Null]

\* C1: in every quiescent state (no request in flight), every invoice's
\* archivo is null or names a file that exists in its owner's directory
C1_AttachmentConsistency ==
  Quiescent =>
    \A i \in Ids :
      Exists(i) =>
        \/ facturas[i].archivo = Null
        \/ FilePath(facturas[i].usuario_id, facturas[i].archivo) \in files

\* C2: every invoice a list answer holds, and every invoice a list request
\* has fetched, is owned by the user who asked
C2_ListOnlyOwn ==
  \A s \in Slots :
    reqs[s].op = "getFacturasByUser" =>
      /\ reqs[s].pc = "count" =>
           \A k \in 1..Len(reqs[s].data) :
             reqs[s].data[k].factura.usuario_id = reqs[s].usuario_id
      /\ reqs[s].resp.status = 200 =>
           \A k \in 1..Len(reqs[s].resp.data.facturas) :
             reqs[s].resp.data.facturas[k].factura.usuario_id = reqs[s].usuario_id

\* C2 witness: a list answer with an invoice in it, given while the other
\* user has an invoice too
C2_Witness ==
  \E s \in Slots :
    /\ reqs[s].op = "getFacturasByUser"
    /\ reqs[s].resp.status = 200
    /\ Len(reqs[s].resp.data.facturas) >= 1
    /\ \E i \in Ids : Exists(i) /\ facturas[i].usuario_id # reqs[s].usuario_id

\* C3: getById, update, delete and clearAttachment on an id that another user
\* owns, or that does not exist, answer the same 404 and leave the table and
\* the files as they are (unless the database itself fails)
C3_ForeignIsNotFound ==
  [][\A s \in Slots :
       (/\ Steps(s)
        /\ reqs[s].pc = "start"
        /\ reqs[s].op \in {"getFacturaById", "updateFactura", "deleteFactura",
                           "deleteArchivoFactura"}
        /\ reqs'[s].error # "db"
        /\ \/ ~Exists(reqs[s].id)
           \/ facturas[reqs[s].id].usuario_id # reqs[s].usuario_id)
       => /\ reqs'[s].resp = NotFound
          /\ Finished(reqs'[s])
          /\ facturas' = facturas
          /\ files' = files]_vars

\* C3 witness: an update answered 404 on an invoice that exists and is
\* another user's
C3_Witness ==
  \E s \in Slots :
    /\ reqs[s].op = "updateFactura"
    /\ reqs[s].resp = NotFound
    /\ Exists(reqs[s].id)
    /\ facturas[reqs[s].id].usuario_id # reqs[s].usuario_id

\* C4: a valid create whose number an invoice already holds answers 400 with
\* the duplicate-number message, adds no invoice and changes none (unless
\* the database itself fails)
C4_DuplicateCreateConflicts ==
  [][\A s \in Slots :
       (/\ Steps(s)
        /\ reqs[s].op = "createFactura"
        /\ CreateValid(reqs[s].body)
        /\ reqs'[s].error # "db"
        /\ reqs[s].body.numero.t = "string"
        /\ reqs[s].body.numero # Str(<<>>)
        /\ \E i \in Ids : Exists(i) /\ facturas[i].numero = reqs[s].body.numero)
       => /\ reqs'[s].resp.status = 400
          /\ reqs'[s].resp.message = MsgDuplicada
          /\ facturas' = facturas
          /\ nextId' = nextId]_vars

\* C4 witness: a create by one user answered with the duplicate-number
\* message while the other user's invoice holds the number
C4_Witness ==
  \E s \in Slots :
    /\ reqs[s].op = "createFactura"
    /\ reqs[s].resp.status = 400
    /\ reqs[s].resp.message = MsgDuplicada
    /\ \E i \in Ids : /\ Exists(i)
                      /\ facturas[i].numero = INV1
                      /\ facturas[i].usuario_id # reqs[s].usuario_id

\* C5: an update by the owner that sets numero to a value another invoice
\* holds answers 400 with the duplicate-number message and changes no invoice
C5_DuplicateUpdateConflicts ==
  [][\A s \in Slots :
       (/\ Steps(s)
        /\ reqs[s].op = "updateFactura"
        /\ reqs[s].pc = "update"
        /\ reqs'[s].error # "db"
        /\ reqs[s].body.numero.t = "string"
        /\ \E i \in Ids : /\ i # reqs[s].id
                          /\ Exists(i)
                          /\ facturas[i].numero = reqs[s].body.numero)
       => /\ reqs'[s].resp.status = 400
          /\ reqs'[s].resp.message = MsgDuplicada
          /\ facturas' = facturas]_vars

\* C6: the caller of deleteFactura never receives the error answer of the
\* file removal: a failed unlink is only logged
C6_UnlinkFailureSwallowed ==
  \A s \in Slots :
    reqs[s].op = "deleteFactura" => reqs[s].resp.message # MsgArchivo

\* C7: deleteArchivoFactura on an invoice without attachment answers 400 and
\* changes nothing; when the unlink fails it answers 500 and changes no
\* invoice; it changes an invoice only after the unlink removed the file, and
\* then only by setting that invoice's archivo to null
C7_ClearOnlyAfterUnlink ==
  [][\A s \in Slots :
       (Steps(s) /\ reqs[s].op = "deleteArchivoFactura") =>
         /\ (/\ reqs[s].pc = "start"
             /\ reqs'[s].error # "db"
             /\ SelectByIdAndUsuario(reqs[s].id, reqs[s].usuario_id) # NoRow
             /\ facturas[reqs[s].id].archivo = Null)
            => /\ reqs'[s].resp.status = 400
               /\ reqs'[s].resp.message = MsgSinArchivo
               /\ facturas' = facturas
               /\ files' = files
         /\ (reqs[s].unlink = "pending" /\ files' = files)
            => /\ reqs'[s].resp.status = 500
               /\ reqs'[s].resp.message = MsgArchivoSistema
               /\ Finished(reqs'[s])
               /\ facturas' = facturas
         /\ facturas' # facturas
            => /\ reqs[s].unlink = "update"
               /\ reqs[s].sends = 0
               /\ facturas' = [facturas EXCEPT ![reqs[s].id].archivo = Null]]_vars

\* C7 witness: a clearAttachment answered 500 for its failed unlink, and the
\* invoice still names its file
C7_Witness ==
  \E s \in Slots :
    /\ reqs[s].op = "deleteArchivoFactura"
    /\ reqs[s].resp.message = MsgArchivoSistema
    /\ Finished(reqs[s])
    /\ Exists(reqs[s].id)
    /\ facturas[reqs[s].id].archivo # Null

\* C8: a successful update of an invoice nobody else changed since it was
\* fetched stores, for estado, numero and descripcion, the body's value unless
\* it is undefined, and for importe, fecha_emision and cliente_id, the body's
\* value only if it is truthy, and the prior value otherwise; the owner, the
\* id and the other invoices stay as they are.  So {estado: true, numero:
\* "INV-1"} on an unpaid invoice of 100.00 gives 100.00, paid, "INV-1", and
\* estado false is stored as false
C8_UpdateFieldPolicy ==
  [][\A s \in Slots :
       (/\ Steps(s)
        /\ reqs[s].op = "updateFactura"
        /\ reqs[s].pc = "update"
        /\ reqs'[s].resp.status = 200
        /\ Exists(reqs[s].id)
        /\ reqs[s].row = facturas[reqs[s].id])
       => LET b == reqs[s].body
              old == facturas[reqs[s].id]
              new == facturas'[reqs[s].id]
          IN /\ new.estado = IF b.estado = Undefined THEN old.estado ELSE b.estado
             /\ new.numero = IF b.numero = Undefined THEN old.numero ELSE b.numero
             /\ new.descripcion =
                  IF b.descripcion = Undefined THEN old.descripcion ELSE b.descripcion
             /\ new.importe = IF Truthy(b.importe) THEN b.importe ELSE old.importe
             /\ new.fecha_emision =
                  IF Truthy(b.fecha_emision) THEN b.fecha_emision ELSE old.fecha_emision
             /\ new.cliente_id =
                  IF Truthy(b.cliente_id) THEN b.cliente_id ELSE old.cliente_id
             /\ new.usuario_id = old.usuario_id
             /\ reqs'[s].resp.data = new
             /\ \A j \in Ids : j # reqs[s].id => facturas'[j] = facturas[j]
             /\ nextId' = nextId
             /\ (/\ b = [EmptyBody EXCEPT !.estado = Bool(TRUE), !.numero = INV1]
                 /\ old.importe = Num(10000)
                 /\ old.estado = Bool(FALSE))
                => /\ new.importe = Num(10000)
                   /\ new.estado = Bool(TRUE)
                   /\ new.numero = INV1
             /\ b.estado = Bool(FALSE) => new.estado = Bool(FALSE)]_vars

\* C8 witness: an update answered with the invoice of 100.00, paid and
\* numbered "INV-1", which is what the table holds
C8_Witness ==
  \E s \in Slots :
    /\ reqs[s].op = "updateFactura"
    /\ reqs[s].resp.status = 200
    /\ Exists(reqs[s].id)
    /\ reqs[s].resp.data = facturas[reqs[s].id]
    /\ facturas[reqs[s].id].importe = Num(10000)
    /\ facturas[reqs[s].id].estado = Bool(TRUE)
    /\ facturas[reqs[s].id].numero = INV1
    /\ facturas[reqs[s].id].cliente_id = Num(5)
    /\ facturas[reqs[s].id].fecha_emision = Fecha(2024, 3, 1)

\* C9: a summary answer for user u and year y reports as importePagadas the
\* sum of the amounts of u's paid invoices dated in y, and as promedioPagadas
\* that sum divided by their number, rounded to the cent (half up), or 0 when
\* there is none; nothing else contributes
C9_PaidSumAndAverage ==
  \A s \in Slots :
    (reqs[s].op = "getResumenFacturasPorYear" /\ reqs[s].resp.status = 200) =>
      LET resumen == reqs[s].resp.data.resumen
          paid == {i \in Ids : /\ Exists(i)
                               /\ facturas[i].usuario_id = reqs[s].usuario_id
                               /\ facturas[i].fecha_emision.y = reqs[s].resp.data.year
                               /\ facturas[i].estado = Bool(TRUE)}
          P == Cardinality(paid)
          upTo[k \in 0..MaxFacturas] ==
            IF k = 0 THEN 0
            ELSE upTo[k - 1] + (IF k \in paid THEN facturas[k].importe.v ELSE 0)
          total == upTo[MaxFacturas]
      IN /\ resumen.importePagadas = total
         /\ IF P = 0 THEN resumen.promedioPagadas = 0
            ELSE /\ 2 * P * resumen.promedioPagadas - P <= 2 * total
                 /\ 2 * total < 2 * P * resumen.promedioPagadas + P

\* C9 witness: a summary answer over two paid invoices of 100.00 and 0.01,
\* whose average 50.005 is reported as 50.01
C9_Witness ==
  \E s \in Slots :
    /\ reqs[s].op = "getResumenFacturasPorYear"
    /\ reqs[s].resp.status = 200
    /\ reqs[s].resp.data.resumen.pagadas = 2
    /\ reqs[s].resp.data.resumen.importePagadas = 10001
    /\ reqs[s].resp.data.resumen.promedioPagadas = 5001

\* C10: the summary answers 400 and runs no query when year does not parse to
\* a positive integer (missing, not a number, zero, negative), and goes on to
\* its queries only for a positive year
C10_YearMustBePositive ==
  [][\A s \in Slots :
       (/\ Steps(s)
        /\ reqs[s].op = "getResumenFacturasPorYear"
        /\ reqs[s].pc = "start")
       => LET year == ParseInt(reqs[s].query.year) IN
          IF year.t = "number" /\ year.v > 0
          THEN reqs'[s].resp.status # 400
          ELSE /\ reqs'[s].resp.status = 400
               /\ reqs'[s].resp.message = MsgYear
               /\ Finished(reqs'[s])]_vars

\* C11: no request has res.json called for it twice, and a request with no
\* handler code left to run has been answered exactly once
C11_ExactlyOneResponse ==
  \A s \in Slots :
    /\ reqs[s].sends <= 1
    /\ (reqs[s].pc = "done" /\ Finished(reqs[s])) => reqs[s].sends = 1

\* C12: in every summary answer the paid and unpaid invoices make up the
\* total, in number and in amount, over the year and in each of the twelve
\* months, whatever estado the invoices were stored with
C12_PaidUnpaidPartition ==
  \A s \in Slots :
    (reqs[s].op = "getResumenFacturasPorYear" /\ reqs[s].resp.status = 200) =>
      LET resumen == reqs[s].resp.data.resumen
          mensual == reqs[s].resp.data.mensual
      IN /\ resumen.pagadas + resumen.noPagadas = resumen.totalFacturas
         /\ resumen.importePagadas + resumen.importeNoPagadas = resumen.totalImporte
         /\ \A mes \in 1..12 :
              mensual[mes].pagadas + mensual[mes].noPagadas = mensual[mes].total

====
